---------------------------- MODULE Spec2Model ----------------------------
(***************************************************************************)
(* scripts/simulateNewReserves.py: the constant-product reserve update     *)
(*                                                                         *)
(*     reserveB = math.ceil((reserveIn*reserveOut)/(reserveIn+alphaX))     *)
(*                                                                         *)
(* printed as the hex text of its uint256 ABI encoding.                    *)
(*                                                                         *)
(* Python integers are unbounded and the operands reach 256 bits, so the   *)
(* model carries integers as sign and magnitude, the magnitude a           *)
(* little-endian sequence of bytes without leading zero bytes (<< >> is    *)
(* zero).  The operator "/" of line 12 is Python's true division: its      *)
(* value is the IEEE-754 double nearest to the exact quotient, modelled    *)
(* here bit for bit (53-bit significand, ties to even, OverflowError at    *)
(* 2^1024, gradual underflow below 2^-1022).                               *)
(***************************************************************************)
EXTENDS Integers, Sequences, FiniteSets, TLC

(***************************************************************************)
(* Natural numbers of any size: little-endian byte sequences.  The         *)
(* operators that carry from byte to byte work on a range of bytes and     *)
(* split it in halves, the carry running from the first half to the second.*)
(***************************************************************************)
Base == 256

LimbBits == 8

RECURSIVE Pow2(_)
Pow2(n) == IF n = 0 THEN 1 ELSE 2 * Pow2(n - 1)

Mid(lo, hi) == (lo + hi) \div 2

\* a without its leading (high) zero bytes
NatNorm(a) ==
    IF \A i \in 1..Len(a) : a[i] = 0 THEN << >>
    ELSE SubSeq(a, 1, CHOOSE i \in 1..Len(a) :
                          a[i] # 0 /\ \A j \in (i + 1)..Len(a) : a[j] = 0)

RECURSIVE NatOfInt(_)
NatOfInt(n) == IF n = 0 THEN << >> ELSE <<n % Base>> \o NatOfInt(n \div Base)

\* -1, 0, 1 as a < b, a = b, a > b (both without leading zero bytes):
\* the longer is the larger, and of two of one length the highest byte
\* that differs decides
NatCmp(a, b) ==
    IF Len(a) < Len(b) THEN -1
    ELSE IF Len(a) > Len(b) THEN 1
    ELSE IF a = b THEN 0
    ELSE LET i == CHOOSE k \in 1..Len(a) :
                      a[k] # b[k] /\ \A j \in (k + 1)..Len(a) : a[j] = b[j]
         IN  IF a[i] < b[i] THEN -1 ELSE 1

\* bytes lo..hi of a + b + c, and the carry out of byte hi
RECURSIVE NatAddRange(_, _, _, _, _)
NatAddRange(a, b, lo, hi, c) ==
    IF lo > hi THEN [out |-> << >>, c |-> c]
    ELSE IF lo = hi
    THEN LET s == (IF lo <= Len(a) THEN a[lo] ELSE 0)
                  + (IF lo <= Len(b) THEN b[lo] ELSE 0) + c
         IN  [out |-> <<s % Base>>, c |-> s \div Base]
    ELSE LET L == NatAddRange(a, b, lo, Mid(lo, hi), c)
             R == NatAddRange(a, b, Mid(lo, hi) + 1, hi, L.c)
         IN  [out |-> L.out \o R.out, c |-> R.c]

WithCarry(r) == IF r.c = 0 THEN r.out ELSE Append(r.out, r.c)

\* a + b
NatAdd(a, b) ==
    IF a = << >> THEN b
    ELSE IF b = << >> THEN a
    ELSE WithCarry(NatAddRange(a, b, 1,
                               IF Len(a) > Len(b) THEN Len(a) ELSE Len(b), 0))

\* bytes lo..hi of a - b - c, and the borrow out of byte hi
RECURSIVE NatSubRange(_, _, _, _, _)
NatSubRange(a, b, lo, hi, c) ==
    IF lo > hi THEN [out |-> << >>, c |-> c]
    ELSE IF lo = hi
    THEN LET s == a[lo] - (IF lo <= Len(b) THEN b[lo] ELSE 0) - c
         IN  IF s < 0 THEN [out |-> <<s + Base>>, c |-> 1]
                      ELSE [out |-> <<s>>, c |-> 0]
    ELSE LET L == NatSubRange(a, b, lo, Mid(lo, hi), c)
             R == NatSubRange(a, b, Mid(lo, hi) + 1, hi, L.c)
         IN  [out |-> L.out \o R.out, c |-> R.c]

\* a - b for a >= b
NatSub(a, b) ==
    IF b = << >> THEN a ELSE NatNorm(NatSubRange(a, b, 1, Len(a), 0).out)

\* bytes lo..hi of a * k + c, and the carry out of byte hi
RECURSIVE NatMulSmallRange(_, _, _, _, _)
NatMulSmallRange(a, k, lo, hi, c) ==
    IF lo > hi THEN [out |-> << >>, c |-> c]
    ELSE IF lo = hi
    THEN LET s == a[lo] * k + c
         IN  [out |-> <<s % Base>>, c |-> s \div Base]
    ELSE LET L == NatMulSmallRange(a, k, lo, Mid(lo, hi), c)
             R == NatMulSmallRange(a, k, Mid(lo, hi) + 1, hi, L.c)
         IN  [out |-> L.out \o R.out, c |-> R.c]

\* a * k for 0 <= k <= Base
NatMulSmall(a, k) ==
    IF k = 0 \/ a = << >> THEN << >>
    ELSE WithCarry(NatMulSmallRange(a, k, 1, Len(a), 0))

\* a * Base^n
NatShlLimbs(a, n) == IF a = << >> THEN << >> ELSE [i \in 1..n |-> 0] \o a

\* the sum of a[i] * b * Base^(i-1) over i in lo..hi
RECURSIVE NatMulRange(_, _, _, _)
NatMulRange(a, b, lo, hi) ==
    IF lo > hi THEN << >>
    ELSE IF lo = hi THEN NatShlLimbs(NatMulSmall(b, a[lo]), lo - 1)
    ELSE NatAdd(NatMulRange(a, b, lo, Mid(lo, hi)),
                NatMulRange(a, b, Mid(lo, hi) + 1, hi))

\* a * b
NatMul(a, b) ==
    IF a = << >> \/ b = << >> THEN << >> ELSE NatMulRange(a, b, 1, Len(a))

RECURSIVE SmallBitLen(_)
SmallBitLen(n) == IF n = 0 THEN 0 ELSE 1 + SmallBitLen(n \div 2)

\* the number of bits of a: 0 for zero
NatBitLen(a) ==
    IF a = << >> THEN 0
    ELSE LimbBits * (Len(a) - 1) + SmallBitLen(a[Len(a)])

\* a * 2^n
NatShl(a, n) ==
    NatShlLimbs(NatMulSmall(a, Pow2(n % LimbBits)), n \div LimbBits)

\* bytes hi down to lo of (r * Base^(hi-lo+1) + a[lo..hi]) divided by k,
\* and the remainder
RECURSIVE NatDivSmallRange(_, _, _, _, _)
NatDivSmallRange(a, k, lo, hi, r) ==
    IF lo > hi THEN [out |-> << >>, r |-> r]
    ELSE IF lo = hi
    THEN LET s == r * Base + a[lo]
         IN  [out |-> <<s \div k>>, r |-> s % k]
    ELSE LET H == NatDivSmallRange(a, k, Mid(lo, hi) + 1, hi, r)
             L == NatDivSmallRange(a, k, lo, Mid(lo, hi), H.r)
         IN  [out |-> L.out \o H.out, r |-> L.r]

\* floor(a / 2^n)
NatShr(a, n) ==
    IF n \div LimbBits >= Len(a) THEN << >>
    ELSE NatNorm(NatDivSmallRange(a, Pow2(n % LimbBits),
                                  n \div LimbBits + 1, Len(a), 0).out)

\* whether a has a one among its n lowest bits
NatLowBits(a, n) ==
    \/ \E i \in 1..(n \div LimbBits) : i <= Len(a) /\ a[i] # 0
    \/ /\ n \div LimbBits + 1 <= Len(a)
       /\ a[n \div LimbBits + 1] % Pow2(n % LimbBits) # 0

(***************************************************************************)
(* Python int: sign and magnitude.                                         *)
(***************************************************************************)
MkInt(neg, mag) == [neg |-> neg /\ mag # << >>, mag |-> mag]

IntZero == MkInt(FALSE, << >>)

IntOfSmall(n) == IF n < 0 THEN MkInt(TRUE, NatOfInt(-n)) ELSE MkInt(FALSE, NatOfInt(n))

IntIsZero(x) == x.mag = << >>

\* big - small, with the sign of the larger magnitude
IntDiff(x, y, xIsBig) ==
    MkInt(IF xIsBig THEN x.neg ELSE y.neg,
          NatSub(IF xIsBig THEN x.mag ELSE y.mag,
                 IF xIsBig THEN y.mag ELSE x.mag))

\* x + y
IntAdd(x, y) ==
    IF x.neg = y.neg THEN MkInt(x.neg, NatAdd(x.mag, y.mag))
    ELSE IntDiff(x, y, NatCmp(x.mag, y.mag) >= 0)

\* x * y
IntMul(x, y) == MkInt(x.neg # y.neg, NatMul(x.mag, y.mag))

\* -1, 0, 1 as x < y, x = y, x > y
IntCmp(x, y) ==
    IF x.neg /\ ~y.neg THEN -1
    ELSE IF ~x.neg /\ y.neg THEN 1
    ELSE IF x.neg THEN NatCmp(y.mag, x.mag)
    ELSE NatCmp(x.mag, y.mag)

IntLe(x, y) == IntCmp(x, y) <= 0

IntLt(x, y) == IntCmp(x, y) < 0

(***************************************************************************)
(* int(text): the decimal literal of Python's int(), over texts of         *)
(* digits, signs, underscores, blanks and other characters.  Surrounding   *)
(* blanks are stripped, one sign may lead, and one underscore may stand    *)
(* between two digits; anything else is a ValueError.                      *)
(***************************************************************************)
Digits == <<"0", "1", "2", "3", "4", "5", "6", "7", "8", "9">>

IsDigit(c) == \E i \in 1..Len(Digits) : Digits[i] = c

DigitVal(c) == (CHOOSE i \in 1..Len(Digits) : Digits[i] = c) - 1

\* t without its leading and trailing blanks
Strip(t) ==
    IF \A i \in 1..Len(t) : t[i] = " " THEN << >>
    ELSE SubSeq(t,
                CHOOSE i \in 1..Len(t) :
                    t[i] # " " /\ \A j \in 1..(i - 1) : t[j] = " ",
                CHOOSE i \in 1..Len(t) :
                    t[i] # " " /\ \A j \in (i + 1)..Len(t) : t[j] = " ")

\* digits with single underscores between them, and at least one digit
IsDigitString(t) ==
    /\ t # << >>
    /\ IsDigit(t[1])
    /\ IsDigit(t[Len(t)])
    /\ \A i \in 1..Len(t) : IsDigit(t[i]) \/ t[i] = "_"
    /\ \A i \in 1..(Len(t) - 1) : ~(t[i] = "_" /\ t[i + 1] = "_")

\* acc * 10 + digit
PushDigit(acc, c) ==
    IF c = "_" THEN acc ELSE NatAdd(NatMulSmall(acc, 10), NatOfInt(DigitVal(c)))

\* the value of acc followed by the digits t[lo..hi], read left to right:
\* the first half, then the second half on what the first half gave (zero
\* when it was all zeros)
RECURSIVE ParseDigits(_, _, _, _)
ParseDigits(t, lo, hi, acc) ==
    IF lo > hi THEN acc
    ELSE IF lo = hi THEN PushDigit(acc, t[lo])
    ELSE LET L == ParseDigits(t, lo, Mid(lo, hi), acc)
         IN  IF L = << >>
             THEN ParseDigits(t, Mid(lo, hi) + 1, hi, << >>)
             ELSE ParseDigits(t, Mid(lo, hi) + 1, hi, L)

HasSign(t) == t # << >> /\ t[1] \in {"+", "-"}

Unsigned(t) == IF HasSign(t) THEN Tail(t) ELSE t

\* whether int(text) returns
IntParses(text) == IsDigitString(Unsigned(Strip(text)))

IntOfStripped(t) ==
    MkInt(HasSign(t) /\ t[1] = "-",
          ParseDigits(t, IF HasSign(t) THEN 2 ELSE 1, Len(t), << >>))

\* the value int(text) returns
IntParse(text) == IntOfStripped(Strip(text))

(***************************************************************************)
(* float: a finite double is sign, significand and exponent, of value      *)
(* (-1)^neg * man * 2^exp with man < 2^53 (or man = 2^53 after a carry,    *)
(* the same value as 2^52 * 2^(exp+1)).                                    *)
(***************************************************************************)
MantDig == 53

MaxExp == 1024

MinExp == -1074

\* one step of shift and subtract: the quotient bit of x against ys
DivStep(x, ys) ==
    IF NatCmp(x, ys) >= 0 THEN [bits |-> <<1>>, rem |-> NatSub(x, ys)]
                          ELSE [bits |-> <<0>>, rem |-> x]

\* quotient bits hi down to lo of x / y (the high bit first, as long
\* division finds them) and what is left of x, for x < y * 2^(hi+1)
RECURSIVE NatDivBits(_, _, _, _)
NatDivBits(x, y, lo, hi) ==
    IF lo = hi THEN DivStep(x, NatShl(y, lo))
    ELSE LET H == NatDivBits(x, y, Mid(lo, hi) + 1, hi)
             L == NatDivBits(H.rem, y, lo, Mid(lo, hi))
         IN  [bits |-> H.bits \o L.bits, rem |-> L.rem]

\* the shift s that gives a * 2^s / b 56 or 57 bits
QuotientShift(a, b) == MantDig + 3 - (NatBitLen(a) - NatBitLen(b))

\* floor(a * 2^s / b) in bits, and whether anything is left
ScaledDivide(a, b, s) ==
    NatDivBits(IF s >= 0 THEN NatShl(a, s) ELSE a,
               IF s >= 0 THEN b ELSE NatShl(b, -s),
               0, MantDig + 3)

\* the number of bits of q from its first one on
BitsLen(q) ==
    IF \A i \in 1..Len(q) : q[i] = 0 THEN 0
    ELSE Len(q) + 1 - (CHOOSE i \in 1..Len(q) :
                           q[i] = 1 /\ \A j \in 1..(i - 1) : q[j] = 0)

\* bit i of q, the last of q being bit 1
BitAt(q, i) == IF 1 <= i /\ i <= Len(q) THEN q[Len(q) + 1 - i] ELSE 0

\* the natural number of bits n+1, n+2, ... of q
BitsFrom(q, n) ==
    NatNorm([i \in 1..((Len(q) + LimbBits) \div LimbBits) |->
                LET k == n + LimbBits * (i - 1)
                IN  BitAt(q, k + 1) + 2 * BitAt(q, k + 2) + 4 * BitAt(q, k + 3)
                    + 8 * BitAt(q, k + 4) + 16 * BitAt(q, k + 5)
                    + 32 * BitAt(q, k + 6) + 64 * BitAt(q, k + 7)
                    + 128 * BitAt(q, k + 8)])

\* q / 2^n (n >= 1) rounded to the nearest integer, ties to even; sticky
\* says that q stands for a value strictly above q
RoundBits(q, n, sticky) ==
    NatAdd(BitsFrom(q, n),
           IF /\ BitAt(q, n) = 1
              /\ \/ sticky
                 \/ \E i \in 1..(n - 1) : BitAt(q, i) = 1
                 \/ BitAt(q, n + 1) = 1
           THEN <<1>> ELSE << >>)

\* the exponent of the double's last place for a quotient q * 2^-s
LastPlace(q, s) ==
    IF BitsLen(q) - MantDig - s < MinExp THEN MinExp ELSE BitsLen(q) - MantDig - s

\* the quotient d.bits * 2^-s (d.rem left over) rounded once to a double
RoundToDouble(d, s) ==
    [man |-> RoundBits(d.bits, LastPlace(d.bits, s) + s, d.rem # << >>),
     exp |-> LastPlace(d.bits, s)]

\* a / b for magnitudes a > 0, b > 0: significand and exponent of the
\* nearest double
NatTrueDivide(a, b) ==
    RoundToDouble(ScaledDivide(a, b, QuotientShift(a, b)), QuotientShift(a, b))

MkFloat(neg, f) ==
    [raises |-> NatBitLen(f.man) + f.exp > MaxExp,
     neg |-> neg, man |-> f.man, exp |-> f.exp]

\* x / y of two ints, y # 0: the float, or raises (an OverflowError) when
\* the quotient rounds to 2^1024 or more
TrueDivide(x, y) ==
    IF IntIsZero(x)
    THEN [raises |-> FALSE, neg |-> x.neg # y.neg, man |-> << >>, exp |-> 0]
    ELSE MkFloat(x.neg # y.neg, NatTrueDivide(x.mag, y.mag))

\* int(f) + 1: the float cut toward zero, plus one
TruncPlusOne(f) ==
    IntAdd(MkInt(f.neg, IF f.exp >= 0 THEN NatShl(f.man, f.exp)
                        ELSE NatShr(f.man, -f.exp)),
           IntOfSmall(1))

\* math.ceil(f): the least int not below the float
Ceil(f) ==
    IF f.exp >= 0 THEN MkInt(f.neg, NatShl(f.man, f.exp))
    ELSE MkInt(f.neg,
               NatAdd(NatShr(f.man, -f.exp),
                      IF ~f.neg /\ NatLowBits(f.man, -f.exp)
                      THEN <<1>> ELSE << >>))

(***************************************************************************)
(* encode_single('uint256', v) and bytes.hex()                             *)
(***************************************************************************)
UintBits == 256

UintBytes == UintBits \div LimbBits

\* a check of the upper limit alone, and a check of the sign alone
EncodeRaisesUpperOnly(v) == NatCmp(v.mag, NatShl(<<1>>, UintBits)) >= 0

EncodeRaisesSignOnly(v) == v.neg

\* whether the encoder refuses v (ValueOutOfBounds): v < 0 or v > 2^256 - 1
EncodeRaises(v) == v.neg \/ NatCmp(v.mag, NatShl(<<1>>, UintBits)) >= 0

Reversed(b) == [i \in 1..Len(b) |-> b[Len(b) + 1 - i]]

\* the big-endian bytes of v, zero-padded on the left to 32
Encode(v) == Reversed(v.mag \o [i \in 1..(UintBytes - Len(v.mag)) |-> 0])

HexDigits ==
    <<"0", "1", "2", "3", "4", "5", "6", "7",
      "8", "9", "a", "b", "c", "d", "e", "f">>

\* two lowercase characters a byte, the low half first
HexLowFirst(bytes) ==
    [i \in 1..(2 * Len(bytes)) |->
        IF i % 2 = 1 THEN HexDigits[(bytes[(i + 1) \div 2] % 16) + 1]
                     ELSE HexDigits[(bytes[(i + 1) \div 2] \div 16) + 1]]

\* bytes.hex(): two lowercase characters a byte, the high half first
Hex(bytes) ==
    [i \in 1..(2 * Len(bytes)) |->
        IF i % 2 = 1 THEN HexDigits[(bytes[(i + 1) \div 2] \div 16) + 1]
                     ELSE HexDigits[(bytes[(i + 1) \div 2] % 16) + 1]]

(***************************************************************************)
(* The command lines.  argv[0] is the script's name; the arguments are     *)
(* texts (sequences of characters).                                        *)
(***************************************************************************)
MaxSmall == 3

SmallTexts == {<<Digits[n + 1]>> : n \in 0..MaxSmall}

\* 2^53 + 1 and 2^53 + 3: the first integers a double cannot hold
TwoTo53Plus1 ==
    <<"9", "0", "0", "7", "1", "9", "9", "2", "5", "4", "7", "4",
       "0", "9", "9", "3">>

TwoTo53Plus3 ==
    <<"9", "0", "0", "7", "1", "9", "9", "2", "5", "4", "7", "4",
       "0", "9", "9", "5">>

\* 2^256 - 1, the largest uint256, and 2^256
MaxUint256Text ==
    <<"1", "1", "5", "7", "9", "2", "0", "8", "9", "2", "3", "7",
       "3", "1", "6", "1", "9", "5", "4", "2", "3", "5", "7", "0",
       "9", "8", "5", "0", "0", "8", "6", "8", "7", "9", "0", "7",
       "8", "5", "3", "2", "6", "9", "9", "8", "4", "6", "6", "5",
       "6", "4", "0", "5", "6", "4", "0", "3", "9", "4", "5", "7",
       "5", "8", "4", "0", "0", "7", "9", "1", "3", "1", "2", "9",
       "6", "3", "9", "9", "3", "5">>

TwoTo256Text ==
    <<"1", "1", "5", "7", "9", "2", "0", "8", "9", "2", "3", "7",
       "3", "1", "6", "1", "9", "5", "4", "2", "3", "5", "7", "0",
       "9", "8", "5", "0", "0", "8", "6", "8", "7", "9", "0", "7",
       "8", "5", "3", "2", "6", "9", "9", "8", "4", "6", "6", "5",
       "6", "4", "0", "5", "6", "4", "0", "3", "9", "4", "5", "7",
       "5", "8", "4", "0", "0", "7", "9", "1", "3", "1", "2", "9",
       "6", "3", "9", "9", "3", "6">>

\* 10^309 > 2^1024, beyond every double
HugeText == <<"1">> \o [i \in 1..309 |-> "0"]

\* " +1_0 " is 10; "x" is no number
AlphaTexts ==
    SmallTexts \cup {<<"-", "1">>, <<" ", "+", "1", "_", "0", " ">>, <<"x">>}

\* "1__0" is no number
ReserveInTexts ==
    SmallTexts \cup {<<"-", "1">>, <<"1", "0", "0", "0">>, <<"1", "_", "_", "0">>}

\* "" and "-" are no numbers
ReserveOutTexts ==
    SmallTexts \cup {<<"-", "3">>, <<"5", "0", "0">>, << >>, <<"-">>}

BigTexts == {TwoTo53Plus1, TwoTo53Plus3, MaxUint256Text, TwoTo256Text}

ScriptName == <<"s">>

\* sys.argv: from no argument to three, the large reserves with the small
\* trades, and the reserve beyond every double with reserveIn = 1
Argv ==
    {<<ScriptName>>}
    \cup {<<ScriptName, a>> : a \in AlphaTexts}
    \cup {<<ScriptName, a, r>> : a \in AlphaTexts, r \in ReserveInTexts}
    \cup {<<ScriptName, a, r, o>> :
              a \in AlphaTexts, r \in ReserveInTexts, o \in ReserveOutTexts}
    \cup {<<ScriptName, a, r, o>> :
              a \in SmallTexts \cup {<<"-", "1">>}, r \in SmallTexts,
              o \in BigTexts}
    \cup {<<ScriptName, a, <<"1">>, HugeText>> : a \in SmallTexts}

(***************************************************************************)
(* The run: main(sys.argv), one action a statement.                        *)
(***************************************************************************)
VARIABLES args, pc, alphaX, reserveIn, reserveOut, reserveA, reserveB, enc,
          stdout, exc, exitCode

vars == <<args, pc, alphaX, reserveIn, reserveOut, reserveA, reserveB, enc,
          stdout, exc, exitCode>>

\* a name not yet assigned
Unbound == [neg |-> FALSE, mag |-> << >>, unbound |-> TRUE]

Init ==
    /\ args \in Argv
    /\ pc = "L6"
    /\ alphaX = Unbound
    /\ reserveIn = Unbound
    /\ reserveOut = Unbound
    /\ reserveA = Unbound
    /\ reserveB = Unbound
    /\ enc = << >>
    /\ stdout = << >>
    /\ exc = ""
    /\ exitCode = -1

\* an exception nobody catches: the traceback goes to stderr, the exit
\* status is 1 and nothing more runs
Raise(e) ==
    /\ pc' = "failed"
    /\ exc' = e
    /\ exitCode' = 1
    /\ UNCHANGED stdout

Goto(l) ==
    /\ pc' = l
    /\ UNCHANGED <<stdout, exc, exitCode>>

\* an argument reader that never raises
ArgExcLenient(a, i) == ""

\* int(args[i]), i counted from 0 as in the source: the exception it
\* raises ("" for none) and the value it returns (zero stands for the
\* value of a call that raises)

ArgExc(a, i) ==
    IF i + 1 > Len(a) THEN "IndexError"
    ELSE IF ~IntParses(a[i + 1]) THEN "ValueError"
    ELSE ""

ArgVal(a, i) ==
    IF i + 1 > Len(a) \/ ~IntParses(a[i + 1]) THEN IntZero
    ELSE IntParse(a[i + 1])

\* alphaX=int(args[1])
ParseAlphaX ==
    /\ pc = "L6"
    /\ IF ArgExc(args, 1) # ""
       THEN Raise(ArgExc(args, 1)) /\ UNCHANGED alphaX
       ELSE Goto("L7") /\ alphaX' = ArgVal(args, 1)
    /\ UNCHANGED <<args, reserveIn, reserveOut, reserveA, reserveB, enc>>

\* reserveIn = int(args[2])
ParseReserveIn ==
    /\ pc = "L7"
    /\ IF ArgExc(args, 2) # ""
       THEN Raise(ArgExc(args, 2)) /\ UNCHANGED reserveIn
       ELSE Goto("L8") /\ reserveIn' = ArgVal(args, 2)
    /\ UNCHANGED <<args, alphaX, reserveOut, reserveA, reserveB, enc>>

\* reserveOut = int(args[3])
ParseReserveOut ==
    /\ pc = "L8"
    /\ IF ArgExc(args, 3) # ""
       THEN Raise(ArgExc(args, 3)) /\ UNCHANGED reserveOut
       ELSE Goto("L10") /\ reserveOut' = ArgVal(args, 3)
    /\ UNCHANGED <<args, alphaX, reserveIn, reserveA, reserveB, enc>>

\* reserveA= reserveIn+alphaX
ComputeReserveA ==
    /\ pc = "L10"
    /\ reserveA' = IntAdd(reserveIn, alphaX)
    /\ Goto("L12")
    /\ UNCHANGED <<args, alphaX, reserveIn, reserveOut, reserveB, enc>>

\* reserveB = math.ceil(f), f the quotient of line 12 or its OverflowError
AssignCeil(f) ==
    IF f.raises
    THEN Raise("OverflowError") /\ UNCHANGED reserveB
    ELSE Goto("L14") /\ reserveB' = Ceil(f)

\* line 12 with a guard that gives 0 for a zero divisor
ComputeReserveBZeroDefault ==
    /\ pc = "L12"
    /\ IF IntIsZero(reserveA)
       THEN Goto("L14") /\ reserveB' = IntZero
       ELSE AssignCeil(TrueDivide(IntMul(reserveIn, reserveOut), reserveA))
    /\ UNCHANGED <<args, alphaX, reserveIn, reserveOut, reserveA, enc>>

\* reserveB = math.ceil((reserveIn*reserveOut)/(reserveA))
ComputeReserveB ==
    /\ pc = "L12"
    /\ IF IntIsZero(reserveA)
       THEN Raise("ZeroDivisionError") /\ UNCHANGED reserveB
       ELSE AssignCeil(TrueDivide(IntMul(reserveIn, reserveOut), reserveA))
    /\ UNCHANGED <<args, alphaX, reserveIn, reserveOut, reserveA, enc>>

\* enc = encode_single('uint256', int(reserveB))
EncodeResult ==
    /\ pc = "L14"
    /\ IF EncodeRaises(reserveB)
       THEN Raise("ValueOutOfBounds") /\ UNCHANGED enc
       ELSE Goto("L15") /\ enc' = Encode(reserveB)
    /\ UNCHANGED <<args, alphaX, reserveIn, reserveOut, reserveA, reserveB>>

\* print("0x" + enc.hex()), and main returns: exit status 0
PrintResult ==
    /\ pc = "L15"
    /\ stdout' = Append(stdout, <<"0", "x">> \o Hex(enc))
    /\ pc' = "done"
    /\ exitCode' = 0
    /\ UNCHANGED <<args, alphaX, reserveIn, reserveOut, reserveA, reserveB,
                   enc, exc>>

Next ==
    \/ ParseAlphaX
    \/ ParseReserveIn
    \/ ParseReserveOut
    \/ ComputeReserveA
    \/ ComputeReserveB
    \/ EncodeResult
    \/ PrintResult

Spec == Init /\ [][Next]_vars

(***************************************************************************)
(* What the claims speak of.                                               *)
(***************************************************************************)
Bound(x) == "unbound" \notin DOMAIN x

Terminal == pc \in {"done", "failed"}

\* reserveB has been computed (line 12 returned)
Computed == Bound(reserveB)

\* all three arguments were read and none is negative
NonNegInputs ==
    /\ Bound(reserveOut)
    /\ ~alphaX.neg /\ ~reserveIn.neg /\ ~reserveOut.neg

AnyNegativeInput ==
    /\ Bound(reserveOut)
    /\ (alphaX.neg \/ reserveIn.neg \/ reserveOut.neg)

\* reserveIn + alphaX > 0
PositiveDivisor == Bound(reserveA) /\ ~reserveA.neg /\ ~IntIsZero(reserveA)

IntPositive(x) == ~x.neg /\ ~IntIsZero(x)

\* 2^256 - 1
MaxUint256 == MkInt(FALSE, NatSub(NatShl(<<1>>, UintBits), <<1>>))

LowerHex == {HexDigits[i] : i \in 1..Len(HexDigits)}

HexVal(c) == (CHOOSE i \in 1..Len(HexDigits) : HexDigits[i] = c) - 1

\* the natural number that 2n hex characters spell as n big-endian bytes
DecodeHex(h) ==
    NatNorm([i \in 1..(Len(h) \div 2) |->
                16 * HexVal(h[Len(h) - 2 * i + 1]) + HexVal(h[Len(h) - 2 * i + 2])])

ZeroLine == <<"0", "x">> \o [i \in 1..64 |-> "0"]

\* C1: whenever a result is computed from non-negative inputs with
\* reserveIn + alphaIn > 0, reserveB * (reserveIn + alphaIn) is at least
\* reserveIn * reserveOut (the reserve is never under-reported).
C1_NeverUnderReported ==
    (Computed /\ NonNegInputs /\ PositiveDivisor)
        => IntLe(IntMul(reserveIn, reserveOut), IntMul(reserveB, reserveA))

\* C2: whenever a positive result is computed from non-negative inputs with
\* reserveIn + alphaIn > 0, (reserveB - 1) * (reserveIn + alphaIn) is below
\* reserveIn * reserveOut (the result is the least integer covering the
\* quotient, never more).
C2_LeastCover ==
    (Computed /\ NonNegInputs /\ PositiveDivisor /\ IntPositive(reserveB))
        => IntLt(IntMul(IntAdd(reserveB, IntOfSmall(-1)), reserveA),
                 IntMul(reserveIn, reserveOut))

\* C3: with alphaIn = 0, reserveIn > 0 and 0 <= reserveOut <= 2^256 - 1 the
\* computed result equals reserveOut.
C3_NoTradeUnchanged ==
    (/\ Computed
     /\ IntIsZero(alphaX)
     /\ IntPositive(reserveIn)
     /\ ~reserveOut.neg
     /\ IntLe(reserveOut, MaxUint256))
        => reserveB = reserveOut

\* C4: when reserveIn + alphaIn is zero the run ends at line 12 in a
\* ZeroDivisionError: no result is computed, nothing is printed, and the
\* exit status is that of a failure.
C4_DivisionByZeroFails ==
    (Bound(reserveA) /\ IntIsZero(reserveA) /\ pc # "L12")
        => /\ pc = "failed"
           /\ exc = "ZeroDivisionError"
           /\ ~Bound(reserveB)
           /\ enc = << >>
           /\ stdout = << >>
           /\ exitCode = 1

C4_Witness ==
    /\ pc = "failed"
    /\ exc = "ZeroDivisionError"
    /\ alphaX = IntZero
    /\ reserveIn = IntZero

\* C5 as stated: a run with a negative input never prints and never ends
\* in success.
C5_NegativeRejected ==
    AnyNegativeInput => (stdout = << >> /\ pc # "done")

\* C5 amended: a negative input is not rejected for its sign.  A run with a
\* negative input ends in failure exactly when reserveIn + alphaIn = 0
\* (ZeroDivisionError), the quotient is beyond a float (OverflowError), or
\* the computed reserveB is negative or above 2^256 - 1 (ValueOutOfBounds);
\* otherwise it succeeds and prints the hex of reserveB.
C5_NegativeOutcome ==
    (Terminal /\ AnyNegativeInput)
        => IF IntIsZero(reserveA)
           THEN pc = "failed" /\ exc = "ZeroDivisionError" /\ stdout = << >>
           ELSE IF ~Computed
           THEN pc = "failed" /\ exc = "OverflowError" /\ stdout = << >>
           ELSE IF reserveB.neg \/ ~IntLe(reserveB, MaxUint256)
           THEN pc = "failed" /\ exc = "ValueOutOfBounds" /\ stdout = << >>
           ELSE /\ pc = "done"
                /\ Len(stdout) = 1
                /\ DecodeHex(SubSeq(stdout[1], 3, Len(stdout[1]))) = reserveB.mag

C5_Witness ==
    /\ pc = "done"
    /\ alphaX.neg
    /\ IntPositive(reserveA)
    /\ IntPositive(reserveB)
    /\ Len(stdout) = 1

\* C6: a computed reserveB above 2^256 - 1 is never wrapped or truncated:
\* the encoding step raises ValueOutOfBounds and no line is printed.
C6_OutOfRangeFails ==
    (Computed /\ ~reserveB.neg /\ ~IntLe(reserveB, MaxUint256) /\ pc # "L14")
        => /\ pc = "failed"
           /\ exc = "ValueOutOfBounds"
           /\ enc = << >>
           /\ stdout = << >>

C6_Witness ==
    /\ pc = "failed"
    /\ exc = "ValueOutOfBounds"
    /\ Computed
    /\ reserveB = MkInt(FALSE, NatShl(<<1>>, UintBits))

\* C7: on success the one output line is "0x" and exactly 64 lowercase
\* hexadecimal characters, which read as a 32-byte big-endian unsigned
\* integer give back reserveB.
C7_OutputRoundTrip ==
    pc = "done"
        => /\ Len(stdout) = 1
           /\ Len(stdout[1]) = 66
           /\ stdout[1][1] = "0"
           /\ stdout[1][2] = "x"
           /\ \A i \in 3..66 : stdout[1][i] \in LowerHex
           /\ ~reserveB.neg
           /\ DecodeHex(SubSeq(stdout[1], 3, 66)) = reserveB.mag

\* a success whose result needs more than 53 bits
C7_Witness ==
    /\ pc = "done"
    /\ Len(stdout) = 1
    /\ NatBitLen(reserveB.mag) > MantDig

\* the statements of main in the order they run
Lines == <<"L6", "L7", "L8", "L10", "L12", "L14", "L15">>

\* how far the run has come: the index of the line to run, or one past the
\* last line once the run has ended
Position(p) ==
    IF p \in {"done", "failed"} THEN Len(Lines) + 1
    ELSE CHOOSE i \in 1..Len(Lines) : Lines[i] = p

\* the outcome so far: still running with nothing printed, ended in success
\* (exit status 0) with exactly one output line, or ended in failure (exit
\* status 1) with none; and a run with fewer than three arguments or with
\* an argument that int() refuses never leaves the parsing
Outcome ==
    /\ pc = "done" => (exitCode = 0 /\ Len(stdout) = 1 /\ exc = "")
    /\ pc = "failed" => (exitCode = 1 /\ stdout = << >> /\ exc # "")
    /\ ~Terminal => (exitCode = -1 /\ stdout = << >> /\ exc = "")
    /\ (Len(args) < 4 \/ \E i \in 2..Len(args) : ~IntParses(args[i]))
          => /\ pc \in {"L6", "L7", "L8", "failed"}
             /\ pc = "failed" => exc \in {"IndexError", "ValueError"}

\* C8: a run is at every point either still running with nothing printed,
\* or ended in success with exactly one output line, or ended in failure
\* with none; a missing or non-numeric argument ends it in failure with
\* nothing printed; and every step moves the run strictly forward through
\* its seven statements, so that no run takes more than seven steps.
C8_TwoOutcomes == []Outcome /\ [][Position(pc') > Position(pc)]_vars

\* the third argument is refused after the first two were read
C8_Witness ==
    /\ pc = "failed"
    /\ exc = "ValueError"
    /\ Bound(reserveIn)
    /\ Len(args) = 4
    /\ stdout = << >>

\* C9: with non-negative inputs, reserveIn + alphaIn > 0 and reserveIn = 0
\* or reserveOut = 0, the result is 0, the run succeeds, and the line
\* printed is "0x" and 64 zeros.
C9_ZeroProduct ==
    (/\ NonNegInputs
     /\ PositiveDivisor
     /\ (IntIsZero(reserveIn) \/ IntIsZero(reserveOut))
     /\ pc \notin {"L12"})
        => /\ reserveB = IntZero
           /\ pc # "failed"
           /\ pc = "done" => stdout = <<ZeroLine>>

C9_Witness ==
    /\ pc = "done"
    /\ IntIsZero(reserveIn)
    /\ IntPositive(alphaX)
    /\ IntPositive(reserveOut)
    /\ stdout = <<ZeroLine>>

\* the result math.ceil(f) is at most b (or f is no float)
ResultNotAbove(f, b) == f.raises \/ IntLe(Ceil(f), b)

\* the non-negative values of alphaIn the command lines offer
AlphaValues ==
    {IntParse(t) : t \in {u \in AlphaTexts : IntParses(u) /\ ~IntParse(u).neg}}

\* C10: for non-negative inputs with reserveIn + alphaIn > 0 the result lies
\* in 0 .. reserveOut, and no larger alphaIn (same reserveIn and reserveOut)
\* gives a larger result.
C10_TradeNeverIncreases ==
    (Computed /\ NonNegInputs /\ PositiveDivisor)
        => /\ ~reserveB.neg
           /\ IntLe(reserveB, reserveOut)
           /\ \A a2 \in AlphaValues :
                 IntLe(alphaX, a2) =>
                    ResultNotAbove(TrueDivide(IntMul(reserveIn, reserveOut),
                                              IntAdd(reserveIn, a2)),
                                   reserveB)

=============================================================================
